---- MODULE Spec2Model ----
(***************************************************************************)
(* A model of easy-fix (src/index.js): wrapAsyncMethod replaces a method   *)
(* of a target object by a wrapper that, depending on the mode resolved    *)
(* at wrap time, forwards to the real method (live), runs the real method  *)
(* and records its outcome into a fixture file (capture), or synthesizes   *)
(* the outcome from a fixture file (replay).                               *)
(*                                                                         *)
(* JavaScript values are named by strings ("undefined", "null", "42",      *)
(* "ok" for the string 'ok', "Error" for an Error object with message      *)
(* boom, "{}" for an empty object, "function" for a callable, "promise"    *)
(* for a thenable).  JSON texts are strings as well; the text of an array  *)
(* is the sequence of the texts of its elements.                           *)
(***************************************************************************)
EXTENDS Integers, Sequences, FiniteSets, TLC

VARIABLES
    env,          \* process.env.TEST_MODE ("" when unset)
    optionsArg,   \* the configuration object handed to wrapAsyncMethod
    options,      \* the options record the wrapper closes over
    target,       \* what obj[method] currently is: "original", "wrapper", or
                  \* "stub" (what the stub collaborator installed for the wrapper)
    dirs,         \* the directories that exist on disk
    fs,           \* the fixture files: path -> content
    calls,        \* the calls made through obj[method], in order
    tickQueue,    \* the process.nextTick queue
    wraps         \* how many times wrapAsyncMethod has run

vars == <<env, optionsArg, options, target, dirs, fs, calls, tickQueue, wraps>>

-----------------------------------------------------------------------------
(* Bounds *)

MaxCalls == 2
MaxWraps == 2

METHOD == "fetch"

\* argument lists a caller passes (a trailing callback is added separately)
ArgLists == {<<"42">>}

\* argument lists of replay calls: also one whose fixture on disk is not JSON
ReplayArgLists == ArgLists \cup {<<"undefined">>}

\* what the real method returns: a plain value, a promise, or it throws
RetKinds == {"undefined", "42", "promise", "throw"}

\* when the real method fires the callback it was handed
CbWhens == {"none", "sync", "async"}

\* the arguments the real method hands to the callback
CbArgLists == {<<"null", "ok">>}

\* how a promise of the real method settles
Settlements == {[how |-> "resolve", v |-> "42"], [how |-> "reject", v |-> "Error"]}

EnvVals == {"", "live", "capture", "replay", "bogus"}
CfgModes == {"", "live", "capture", "replay"}
Dirs == {"test/data", "/tmp/x"}

-----------------------------------------------------------------------------
(* Constants of the program *)

modes == [live |-> "live", capture |-> "capture", replay |-> "replay"]

NICE_ERR_HEADER == "This test (in replay mode) could not read the expected mock data from"
NICE_ERR_SERIALIZATION_DESCRIPTOR == "Serialized arguments"
NICE_ERR_FOOTER == "If you have not already, try running this test in capture mode"
NICE_ERR_PROMISE == "easy-fix retained no resolution/rejection arguments for this wrapped promise"

NoMessage == [header |-> "", file |-> <<>>, descriptor |-> "", details |-> <<>>, footer |-> ""]

\* getNiceError with the serialized arguments left out of the message
getNiceErrorWithoutDetails(file, details) ==
    [header |-> NICE_ERR_HEADER, file |-> file,
     descriptor |-> NICE_ERR_SERIALIZATION_DESCRIPTOR, details |-> <<>>,
     footer |-> NICE_ERR_FOOTER]

getNiceError(file, details) ==
    [header |-> NICE_ERR_HEADER, file |-> file,
     descriptor |-> NICE_ERR_SERIALIZATION_DESCRIPTOR, details |-> details,
     footer |-> NICE_ERR_FOOTER]

-----------------------------------------------------------------------------
(* JSON *)

\* JSON.stringify of a value that is an element of an array
ElemText(v) ==
    CASE v \in {"undefined", "function"} -> "null"
      [] v = "Error" -> "{}"
      [] v = "ok" -> "\"ok\""
      [] v = "ENOENT" -> "{\"code\":\"ENOENT\"}"
      [] OTHER -> v

\* JSON.stringify of a top-level value: undefined for what has no JSON text
ValueText(v) ==
    CASE v \in {"undefined", "function"} -> "undefined"
      [] v = "Error" -> "{}"
      [] v = "ok" -> "\"ok\""
      [] OTHER -> v

\* stringifySafe applied to an array (no cycles in the bounded inputs)
stringifySafe(arr) == [i \in 1..Len(arr) |-> ElemText(arr[i])]

\* JSON.parse of the text of a value
ParseText(t) == IF t = "\"ok\"" THEN "ok" ELSE t

\* JSON.parse of the text of an array
ParseArray(ts) == [i \in 1..Len(ts) |-> ParseText(ts[i])]

\* the fields of a fixture record that hold a JavaScript value, not a string
ScalarFields == {"returnedPromise", "returnValue"}

\* stringifySafe applied to wrappedCallData: undefined-valued fields vanish
RecordText(rec) ==
    [k \in {f \in DOMAIN rec : ~(f \in ScalarFields /\ rec[f] = "undefined")} |-> rec[k]]

\* a file whose content is not JSON
Malformed == [malformed |-> "<<<"]

\* returnValue && !!returnValue.then
ReturnedPromise(ret) ==
    CASE ret \in {"undefined", "null", "0"} -> ret
      [] ret = "promise" -> "true"
      [] OTHER -> "false"

Has(rec, f) == f \in DOMAIN rec

Put(rec, f, v) == [k \in DOMAIN rec \cup {f} |-> IF k = f THEN v ELSE rec[k]]

-----------------------------------------------------------------------------
(* Fingerprint and fixture path *)

HASH_LENGTH == 12

\* the first HASH_LENGTH hex digits of the sha256 digest of the serialized
\* arguments: kept symbolic, so collision-free on the bounded inputs
hashKey(argStr) == <<"sha256", argStr, HASH_LENGTH>>

filepath(opts, argStr) == <<opts.dir, opts.prefix, hashKey(argStr), ".json">>

\* the array the wrapper serializes: the arguments with the caller's callback
callingArgs(args, hasCb) == IF hasCb THEN Append(args, "function") ELSE args

-----------------------------------------------------------------------------
(* Wrap-time configuration *)

\* the configuration objects handed to wrapAsyncMethod; str is the shorthand
\* where the argument is the directory alone
ShorthandArgs ==
    [str : {"/tmp/x"}, dir : {""}, prefix : {""}, mode : {""}, sinon : {FALSE}]

\* configurations with an explicit mode: each mode with the default directory,
\* and capture with a directory that does not exist
ExplicitArgs ==
    [str : {""}, dir : {""}, prefix : {""}, mode : CfgModes \ {""}, sinon : {FALSE}]
      \cup [str : {""}, dir : {"/tmp/x"}, prefix : {""}, mode : {"capture"},
             sinon : {FALSE}]

\* a configuration that supplies the stub collaborator (options.sinon)
SinonArgs == [str : {""}, dir : {""}, prefix : {""}, mode : {"replay"}, sinon : {TRUE}]

\* configurations that vary the mode and the prefix, and the shorthand
ModeArgs ==
    ShorthandArgs
      \cup [str : {""}, dir : {""}, prefix : {"", "pfx"}, mode : CfgModes, sinon : {FALSE}]

\* configurations that name the default directory and prefix or leave them
\* out, and one other prefix, in capture and in replay mode
PathConfigs ==
    [str : {""}, dir : {"", "test/data"}, prefix : {"", METHOD, "pfx"},
     mode : {"capture", "replay"}, sinon : {FALSE}]

\* argument lists of which two serialize alike, and like a list that ends in
\* a callback
PathArgLists == {<<"42">>, <<"42", "undefined">>, <<"42", "null">>}

\* modes[key]: undefined for a key that names no mode
ModesLookup(key) == IF key \in DOMAIN modes THEN modes[key] ELSE "undefined"

\* the resolution with the environment taking precedence over the configuration
ResolveModeEnvFirst(cfgMode, e) ==
    IF e # "" THEN ModesLookup(e)
    ELSE IF cfgMode # "" THEN cfgMode ELSE modes.replay

\* optionsArg.mode || modes[process.env.TEST_MODE || modes.replay]
ResolveMode(cfgMode, e) ==
    IF cfgMode # "" THEN cfgMode
    ELSE ModesLookup(IF e # "" THEN e ELSE modes.replay)

ResolveDir(arg) ==
    IF arg.str # "" THEN arg.str ELSE IF arg.dir # "" THEN arg.dir ELSE "test/data"

ResolvePrefix(arg) == IF arg.prefix # "" THEN arg.prefix ELSE METHOD

NoOptions == [dir |-> "", prefix |-> "", mode |-> "undefined", sinon |-> FALSE]

\* what the target holds once wrapAsyncMethod is done: the stub collaborator,
\* handed the wrapper, installs its stub; otherwise obj[method] = wrapper
Installed(arg) == IF arg.sinon THEN "stub" ELSE "wrapper"

\* the target holds the wrapper or a stub that forwards to it
Wrapped == {"wrapper", "stub"}

\* a restore that puts the wrapper on the target
originalFnLost == "wrapper"

\* originalFn = obj[method] as read when wrapAsyncMethod starts: the original
\* method, since wrapAsyncMethod runs on an unwrapped target
originalFn == "original"

\* exports.wrapAsyncMethod: the options are computed once, the wrapper installed
wrapAsyncMethod(arg) ==
    /\ target = "original"
    /\ wraps < MaxWraps
    /\ wraps' = wraps + 1
    /\ optionsArg' = arg
    /\ options' = [dir |-> ResolveDir(arg), prefix |-> ResolvePrefix(arg),
                   mode |-> ResolveMode(arg.mode, env), sinon |-> arg.sinon]
    /\ target' = Installed(arg)
    /\ UNCHANGED <<env, dirs, fs, calls, tickQueue>>

\* wrapper.restore: obj[method] = originalFn.  The wrapper has no restore
\* when the installation went to the stub collaborator.
restore ==
    /\ options # NoOptions
    /\ ~options.sinon
    /\ target' = originalFn
    /\ UNCHANGED <<env, optionsArg, options, dirs, fs, calls, tickQueue, wraps>>

\* the stub collaborator restores the method it stubbed
sinonRestore ==
    /\ target = "stub"
    /\ target' = "original"
    /\ UNCHANGED <<env, optionsArg, options, dirs, fs, calls, tickQueue, wraps>>

\* the test process changes process.env.TEST_MODE
SetEnv(e) ==
    /\ env # e
    /\ env' = e
    /\ UNCHANGED <<optionsArg, options, target, dirs, fs, calls, tickQueue, wraps>>

\* the caller changes the mode of the configuration object it passed earlier
MutateConfig(m) ==
    /\ options # NoOptions
    /\ optionsArg.mode # m
    /\ optionsArg' = [optionsArg EXCEPT !.mode = m]
    /\ UNCHANGED <<env, options, target, dirs, fs, calls, tickQueue, wraps>>

-----------------------------------------------------------------------------
(* Calls *)

EmptyRec == [k \in {} |-> ""]

NoFuture == [state |-> "none", v |-> ""]

\* the branch of the wrapper a mode selects: live, capture, else replay
BranchOf(m) ==
    IF m = modes.live THEN "live" ELSE IF m = modes.capture THEN "capture" ELSE "replay"

\* A call through obj[method], as it starts.  branch is the part of the
\* wrapper that ran ("direct" when the target holds the original method), mode
\* is options.mode at the call, dir and prefix are those the fixture path was
\* built from, and drift tells that resolving the mode again
\* at the call, from the configuration object and the environment as they are
\* then, would select another branch.
NewCall(branch, args, hasCb) ==
    [branch |-> branch, args |-> args, hasCb |-> hasCb,
     mode |-> options.mode,
     dir |-> "", prefix |-> "",     \* options.dir and options.prefix as used
     drift |-> BranchOf(ResolveMode(optionsArg.mode, env)) # BranchOf(options.mode),
     argStr |-> <<>>, path |-> <<>>,
     wrappedCallData |-> EmptyRec,  \* the FixtureRecord in memory
     cannedJson |-> EmptyRec,       \* the parsed fixture (replay)
     invoked |-> 0,                 \* invocations of the original method
     passedArgs |-> <<>>,           \* the arguments the original received
     cbPending |-> FALSE,           \* the original will fire the callback later
     realPromise |-> "none",        \* the promise the original returned
     realRet |-> "",                \* what the original returned ("throw": it threw)
     realFired |-> <<>>,            \* argument lists the original gave the callback
     realSettled |-> NoFuture,      \* how the original's promise settled
     readErr |-> "",                \* the error the fixture read raised, if any
     outcome |-> [kind |-> "running", v |-> "", message |-> NoMessage],
     future |-> NoFuture,           \* the future the caller holds
     cbSeen |-> <<>>,               \* argument lists the caller's callback got
     settles |-> <<>>,              \* settle events with the record at the event
     writes |-> <<>>,               \* fixture writes attempted
     reads |-> 0,                   \* fixture reads attempted
     log |-> <<>>]                  \* the order of what happened

Returned(c, v) ==
    [c EXCEPT !.outcome = [kind |-> "value", v |-> v, message |-> NoMessage],
              !.log = Append(@, "return")]

ReturnedFuture(c) ==
    [c EXCEPT !.outcome = [kind |-> "promise", v |-> "promise", message |-> NoMessage],
              !.future = [state |-> "pending", v |-> ""],
              !.log = Append(@, "return")]

Threw(c, v, msg) ==
    [c EXCEPT !.outcome = [kind |-> "throw", v |-> v, message |-> msg],
              !.log = Append(@, "throw")]

\* the caller's own callback runs
Delivered(c, cbArgs) ==
    [c EXCEPT !.cbSeen = Append(@, cbArgs), !.log = Append(@, "cb")]

\* the real method is entered with the arguments passed; ret is what it will do
Invoked(c, passed, ret) ==
    [c EXCEPT !.invoked = @ + 1, !.passedArgs = passed, !.realRet = ret,
              !.log = Append(@, "orig")]

\* the real method fires the callback it was handed
Fired(c, cbArgs) == [c EXCEPT !.realFired = Append(@, cbArgs)]

\* originalFn.apply(self, callingArgs) where the trailing callback, if any, is
\* the caller's own: the real method may fire it at once or later, and returns
\* a value, returns a promise, or throws
OriginalApply(c, ret, cbWhen, cbArgs) ==
    LET c1 == Invoked(c, callingArgs(c.args, c.hasCb), ret)
        c2 == IF cbWhen = "sync" THEN Delivered(Fired(c1, cbArgs), cbArgs) ELSE c1
        c3 == [c2 EXCEPT !.cbPending = (cbWhen = "async")]
    IN  CASE ret = "throw" -> Threw(c2, "Error", NoMessage)
          [] ret = "promise" ->
                 [ReturnedFuture(c3) EXCEPT !.realPromise = "pending"]
          [] OTHER -> Returned(c3, ret)

\* a call when obj[method] is the original method
DirectCall(args, hasCb, ret, cbWhen, cbArgs) ==
    OriginalApply(NewCall("direct", args, hasCb), ret, cbWhen, cbArgs)

\* the live branch taken after the callback substitution instead of before it
LiveCallSubstituting(args, hasCb, ret, cbWhen, cbArgs) ==
    [OriginalApply(NewCall("live", args, hasCb), ret, cbWhen, cbArgs)
        EXCEPT !.passedArgs = IF hasCb THEN Append(args, "proxy") ELSE args]

\* wrapper, options.mode === modes.live: return originalFn.apply(self, callingArgs)
LiveCall(args, hasCb, ret, cbWhen, cbArgs) ==
    OriginalApply(NewCall("live", args, hasCb), ret, cbWhen, cbArgs)

-----------------------------------------------------------------------------
(* Capture *)

\* fs.writeFileSync(filepath, text): fails when the directory does not exist
WriteOk(path) == path[1] \in dirs

\* a write that keeps the fields the file already holds and the record lacks
WriteFileMerging(f, path, text) ==
    IF WriteOk(path)
    THEN [p \in DOMAIN f \cup {path} |->
             IF p = path
             THEN IF path \in DOMAIN f
                  THEN [k \in DOMAIN f[path] \cup DOMAIN text |->
                           IF k \in DOMAIN text THEN text[k] ELSE f[path][k]]
                  ELSE text
             ELSE f[p]]
    ELSE f

\* fs.writeFileSync replaces the whole content of the file
WriteFile(f, path, text) ==
    IF WriteOk(path)
    THEN [p \in DOMAIN f \cup {path} |-> IF p = path THEN text ELSE f[p]]
    ELSE f

\* writeWrappedCallData: the whole record, as it is now, goes to the file
writeWrappedCallData(c, f) ==
    [call |-> [c EXCEPT !.writes = Append(@, [path |-> c.path,
                                               text |-> RecordText(c.wrappedCallData),
                                               ok |-> WriteOk(c.path)]),
                        !.log = Append(@, "write")],
     fs |-> WriteFile(f, c.path, RecordText(c.wrappedCallData)),
     ok |-> WriteOk(c.path)]

\* a settle event: field f of the record is set to text
Settle(c, kind, f, text) ==
    LET rec == Put(c.wrappedCallData, f, text)
    IN  [c EXCEPT !.wrappedCallData = rec,
                  !.settles = Append(@, [kind |-> kind, rec |-> rec])]

\* the substituted callback without the call of the caller's callback
SubstitutedCallbackSilent(c, f, cbArgs) ==
    writeWrappedCallData(
        Settle(c, "callback", "callbackArgs", stringifySafe(cbArgs)), f)

\* the substituted callback calling the caller's callback before it writes
SubstitutedCallbackEarly(c, f, cbArgs) ==
    writeWrappedCallData(
        Delivered(Settle(c, "callback", "callbackArgs", stringifySafe(cbArgs)), cbArgs), f)

\* the substituted callback: record the arguments, write, then call the
\* caller's callback; a failed write throws before the caller's callback runs
SubstitutedCallback(c, f, cbArgs) ==
    LET w == writeWrappedCallData(
                 Settle(c, "callback", "callbackArgs", stringifySafe(cbArgs)), f)
    IN  [w EXCEPT !.call = IF w.ok THEN Delivered(w.call, cbArgs) ELSE w.call]

\* the future the caller holds settles
FutureSettled(c, state, v) ==
    [c EXCEPT !.future = [state |-> state, v |-> v], !.log = Append(@, "settle")]

\* the .catch handler of the chain: record the reason, write, reject again
RejectionHandler(c, f, r) ==
    LET w == writeWrappedCallData(
                 Settle(c, "rejected", "promiseRejectionArgs", stringifySafe(<<r>>)), f)
    IN  [w EXCEPT !.call = IF w.ok THEN FutureSettled(w.call, "rejected", r)
                           ELSE FutureSettled(w.call, "rejected", "ENOENT")]

\* the .then handler of the chain: record the value, write, resolve again; a
\* failed write rejects the inner promise, which the .catch handler then sees
ResolutionHandler(c, f, v) ==
    LET w == writeWrappedCallData(
                 Settle(c, "resolved", "promiseResolutionArgs", stringifySafe(<<v>>)), f)
    IN  IF w.ok THEN [w EXCEPT !.call = FutureSettled(w.call, "resolved", v)]
        ELSE RejectionHandler(w.call, w.fs, "ENOENT")

\* the return value recorded whether or not the result is a promise
CaptureReturnAlways(c, ret) ==
    LET c1 == Settle([c EXCEPT !.wrappedCallData =
                          Put(@, "returnedPromise", ReturnedPromise(ret))],
                     "return", "returnValue",
                     IF ret = "promise" THEN "{}" ELSE ValueText(ret))
    IN  IF c1.wrappedCallData.returnedPromise = "true"
        THEN [ReturnedFuture(c1) EXCEPT !.realPromise = "pending"]
        ELSE Returned(c1, ret)

\* what the wrapper does with the value the real method returned
CaptureReturn(c, ret) ==
    LET c1 == [c EXCEPT !.wrappedCallData =
                   Put(@, "returnedPromise", ReturnedPromise(ret))]
    IN  IF c1.wrappedCallData.returnedPromise = "true"
        THEN [ReturnedFuture(c1) EXCEPT !.realPromise = "pending"]
        ELSE Returned(Settle(c1, "return", "returnValue", ValueText(ret)), ret)

\* the fingerprint taken of the arguments themselves, not of their text
FingerprintedRaw(c) ==
    LET argStr == stringifySafe(callingArgs(c.args, c.hasCb))
    IN  [c EXCEPT !.argStr = argStr,
                  !.dir = options.dir, !.prefix = options.prefix,
                  !.path = filepath(options, callingArgs(c.args, c.hasCb)),
                  !.wrappedCallData = [callArgs |-> argStr]]

\* the part of the wrapper shared by capture and replay: serialize the
\* arguments, derive the path, start the record
Fingerprinted(c) ==
    LET argStr == stringifySafe(callingArgs(c.args, c.hasCb))
    IN  [c EXCEPT !.argStr = argStr,
                  !.dir = options.dir, !.prefix = options.prefix,
                  !.path = filepath(options, argStr),
                  !.wrappedCallData = [callArgs |-> argStr]]

\* wrapper, options.mode === modes.capture.  A write that fails inside a
\* callback fired during the call surfaces from the call; a real method that
\* throws fires no callback later.
CaptureCall(args, hasCb, ret, cbWhen, cbArgs) ==
    LET c0 == Fingerprinted(NewCall("capture", args, hasCb))
        c1 == Invoked(c0, IF hasCb THEN Append(args, "proxy") ELSE args, ret)
        s  == IF cbWhen = "sync" THEN SubstitutedCallback(Fired(c1, cbArgs), fs, cbArgs)
              ELSE [call |-> c1, fs |-> fs, ok |-> TRUE]
        c2 == [s.call EXCEPT !.cbPending = (cbWhen = "async" /\ ret # "throw")]
    IN  [call |-> CASE ~s.ok -> Threw(s.call, "ENOENT", NoMessage)
                    [] ret = "throw" -> Threw(c2, "Error", NoMessage)
                    [] OTHER -> CaptureReturn(c2, ret),
         fs |-> s.fs]

-----------------------------------------------------------------------------
(* Replay *)

ReadErrs == {"", "EACCES"}

FileExists(path) == path[1] \in dirs /\ path \in DOMAIN fs

\* process.nextTick(task)
Deferred(q, i, task) == Append(q, [call |-> i, task |-> task])

\* the callback delivered within the call instead of on the next tick
SynthesizeAtOnce(c, i, q) ==
    LET c1 == IF Has(c.cannedJson, "callbackArgs") /\ c.hasCb
              THEN Delivered(c, ParseArray(c.cannedJson.callbackArgs)) ELSE c
    IN  IF Has(c.cannedJson, "returnedPromise") /\ c.cannedJson.returnedPromise = "true"
        THEN [call |-> ReturnedFuture(c1), q |-> Deferred(q, i, "settle")]
        ELSE IF Has(c.cannedJson, "returnValue")
        THEN [call |-> Returned(c1, ParseText(c.cannedJson.returnValue)), q |-> q]
        ELSE [call |-> Threw(c1, "SyntaxError", NoMessage), q |-> q]

\* the callback scheduled only when the fixture indicates no future
SynthesizeExclusive(c, i, q) ==
    LET promised == Has(c.cannedJson, "returnedPromise")
                      /\ c.cannedJson.returnedPromise = "true"
        q1 == IF Has(c.cannedJson, "callbackArgs") /\ ~promised
              THEN Deferred(q, i, "cb") ELSE q
    IN  IF promised
        THEN [call |-> ReturnedFuture(c), q |-> Deferred(q1, i, "settle")]
        ELSE IF Has(c.cannedJson, "returnValue")
        THEN [call |-> Returned(c, ParseText(c.cannedJson.returnValue)), q |-> q1]
        ELSE [call |-> Threw(c, "SyntaxError", NoMessage), q |-> q1]

\* the end of the replay branch, once the fixture is parsed: schedule the
\* callback, then return a future or the parsed return value
Synthesize(c, i, q) ==
    LET q1 == IF Has(c.cannedJson, "callbackArgs") THEN Deferred(q, i, "cb") ELSE q
    IN  IF Has(c.cannedJson, "returnedPromise") /\ c.cannedJson.returnedPromise = "true"
        THEN [call |-> ReturnedFuture(c), q |-> Deferred(q1, i, "settle")]
        ELSE IF Has(c.cannedJson, "returnValue")
        THEN [call |-> Returned(c, ParseText(c.cannedJson.returnValue)), q |-> q1]
        ELSE [call |-> Threw(c, "SyntaxError", NoMessage), q |-> q1]

\* the replay branch reporting a fixture that is not JSON through a future
\* rejected on the next tick instead of throwing
ReplayReadDeferring(c, i, readErr) ==
    LET c1 == [c EXCEPT !.reads = @ + 1, !.log = Append(@, "read")]
    IN  CASE readErr # "" ->
                 [call |-> Threw([c1 EXCEPT !.readErr = readErr], readErr, NoMessage),
                  q |-> tickQueue]
          [] readErr = "" /\ ~FileExists(c1.path) ->
                 [call |-> Threw([c1 EXCEPT !.readErr = "ENOENT"], "Error",
                                 getNiceError(c1.path, c1.argStr)),
                  q |-> tickQueue]
          [] readErr = "" /\ FileExists(c1.path) /\ fs[c1.path] = Malformed ->
                 [call |-> ReturnedFuture(c1), q |-> Deferred(tickQueue, i, "settle")]
          [] OTHER ->
                 Synthesize([c1 EXCEPT !.cannedJson = fs[c1.path]], i, tickQueue)

\* the replay branch from the read on: c is the call so far, i the index it
\* gets, readErr the failure of the read other than a missing file, if any
ReplayRead(c, i, readErr) ==
    LET c1 == [c EXCEPT !.reads = @ + 1, !.log = Append(@, "read")]
    IN  CASE readErr # "" ->
                 [call |-> Threw([c1 EXCEPT !.readErr = readErr], readErr, NoMessage),
                  q |-> tickQueue]
          [] readErr = "" /\ ~FileExists(c1.path) ->
                 [call |-> Threw([c1 EXCEPT !.readErr = "ENOENT"], "Error",
                                 getNiceError(c1.path, c1.argStr)),
                  q |-> tickQueue]
          [] readErr = "" /\ FileExists(c1.path) /\ fs[c1.path] = Malformed ->
                 [call |-> Threw(c1, "SyntaxError", NoMessage), q |-> tickQueue]
          [] OTHER ->
                 Synthesize([c1 EXCEPT !.cannedJson = fs[c1.path]], i, tickQueue)

\* the replay branch running the real method before it reads the fixture
ReplayCallInvoking(args, hasCb, i, readErr) ==
    ReplayRead(Invoked(Fingerprinted(NewCall("replay", args, hasCb)),
                       callingArgs(args, hasCb), "undefined"), i, readErr)

\* wrapper, mode is replay
ReplayCall(args, hasCb, i, readErr) ==
    ReplayRead(Fingerprinted(NewCall("replay", args, hasCb)), i, readErr)

\* the deferred callback delivery: origCallback.apply(self, parsed arguments);
\* without a caller callback the apply fails inside the tick
DeferredCallback(c) ==
    IF c.hasCb THEN Delivered(c, ParseArray(c.cannedJson.callbackArgs))
    ELSE [c EXCEPT !.log = Append(@, "TypeError")]

First(arr) == IF Len(arr) > 0 THEN arr[1] ELSE "undefined"

\* the deferred settlement that resolves with undefined when the fixture
\* retained neither resolution nor rejection arguments
DeferredSettleResolvingByDefault(c) ==
    IF Has(c.cannedJson, "promiseResolutionArgs")
    THEN FutureSettled(c, "resolved", First(ParseArray(c.cannedJson.promiseResolutionArgs)))
    ELSE IF Has(c.cannedJson, "promiseRejectionArgs")
    THEN FutureSettled(c, "rejected", First(ParseArray(c.cannedJson.promiseRejectionArgs)))
    ELSE FutureSettled(c, "resolved", "undefined")

\* the deferred settlement of the synthesized future
DeferredSettle(c) ==
    IF Has(c.cannedJson, "promiseResolutionArgs")
    THEN FutureSettled(c, "resolved", First(ParseArray(c.cannedJson.promiseResolutionArgs)))
    ELSE IF Has(c.cannedJson, "promiseRejectionArgs")
    THEN FutureSettled(c, "rejected", First(ParseArray(c.cannedJson.promiseRejectionArgs)))
    ELSE FutureSettled(c, "rejected", NICE_ERR_PROMISE)

-----------------------------------------------------------------------------
(* Actions *)

\* the mode resolved again at every call
EffectiveModePerCall == ResolveMode(optionsArg.mode, env)

\* options.mode as the wrapper reads it at a call
EffectiveMode == options.mode

CallGuard(hasCb, cbWhen) ==
    /\ Len(calls) < MaxCalls
    /\ ~hasCb => cbWhen = "none"

CallDirect(args, hasCb, ret, cbWhen, cbArgs) ==
    /\ target = "original"
    /\ CallGuard(hasCb, cbWhen)
    /\ calls' = Append(calls, DirectCall(args, hasCb, ret, cbWhen, cbArgs))
    /\ UNCHANGED <<env, optionsArg, options, target, dirs, fs, tickQueue, wraps>>

CallLive(args, hasCb, ret, cbWhen, cbArgs) ==
    /\ target \in Wrapped
    /\ EffectiveMode = modes.live
    /\ CallGuard(hasCb, cbWhen)
    /\ calls' = Append(calls, LiveCall(args, hasCb, ret, cbWhen, cbArgs))
    /\ UNCHANGED <<env, optionsArg, options, target, dirs, fs, tickQueue, wraps>>

CallCapture(args, hasCb, ret, cbWhen, cbArgs) ==
    /\ target \in Wrapped
    /\ EffectiveMode # modes.live
    /\ EffectiveMode = modes.capture
    /\ CallGuard(hasCb, cbWhen)
    /\ LET r == CaptureCall(args, hasCb, ret, cbWhen, cbArgs)
       IN  calls' = Append(calls, r.call) /\ fs' = r.fs
    /\ UNCHANGED <<env, optionsArg, options, target, dirs, tickQueue, wraps>>

CallReplay(args, hasCb, readErr) ==
    /\ target \in Wrapped
    /\ EffectiveMode # modes.live
    /\ EffectiveMode # modes.capture
    /\ CallGuard(hasCb, "none")
    /\ LET r == ReplayCall(args, hasCb, Len(calls) + 1, readErr)
       IN  calls' = Append(calls, r.call) /\ tickQueue' = r.q
    /\ UNCHANGED <<env, optionsArg, options, target, dirs, fs, wraps>>

\* the real method fires the callback it was handed, some time after the call
CallbackFires(i, cbArgs) ==
    /\ calls[i].cbPending
    /\ LET c == Fired([calls[i] EXCEPT !.cbPending = FALSE], cbArgs)
           r == IF c.branch = "capture" THEN SubstitutedCallback(c, fs, cbArgs)
                ELSE [call |-> Delivered(c, cbArgs), fs |-> fs, ok |-> TRUE]
       IN  calls' = [calls EXCEPT ![i] = r.call] /\ fs' = r.fs
    /\ UNCHANGED <<env, optionsArg, options, target, dirs, tickQueue, wraps>>

\* the promise the real method returned settles
PromiseSettles(i, s) ==
    /\ calls[i].realPromise = "pending"
    /\ LET state == IF s.how = "resolve" THEN "resolved" ELSE "rejected"
           c == [calls[i] EXCEPT !.realPromise = "settled",
                                 !.realSettled = [state |-> state, v |-> s.v]]
           r == IF c.branch # "capture"
                THEN [call |-> FutureSettled(c, state, s.v), fs |-> fs, ok |-> TRUE]
                ELSE IF s.how = "resolve" THEN ResolutionHandler(c, fs, s.v)
                ELSE RejectionHandler(c, fs, s.v)
       IN  calls' = [calls EXCEPT ![i] = r.call] /\ fs' = r.fs
    /\ UNCHANGED <<env, optionsArg, options, target, dirs, tickQueue, wraps>>

\* the deferred callback delivered through the substituted callback, which
\* writes the record
TickThroughProxy ==
    /\ tickQueue # <<>>
    /\ LET t == Head(tickQueue)
           c == calls[t.call]
           r == IF t.task = "cb" /\ c.hasCb
                THEN SubstitutedCallback(c, fs, ParseArray(c.cannedJson.callbackArgs))
                ELSE [call |-> IF t.task = "cb" THEN DeferredCallback(c)
                               ELSE DeferredSettle(c),
                      fs |-> fs, ok |-> TRUE]
       IN  calls' = [calls EXCEPT ![t.call] = r.call] /\ fs' = r.fs
    /\ tickQueue' = Tail(tickQueue)
    /\ UNCHANGED <<env, optionsArg, options, target, dirs, wraps>>

\* the event loop runs the next process.nextTick task
Tick ==
    /\ tickQueue # <<>>
    /\ LET t == Head(tickQueue)
           c == calls[t.call]
       IN  calls' = [calls EXCEPT ![t.call] =
                        IF t.task = "cb" THEN DeferredCallback(c) ELSE DeferredSettle(c)]
    /\ tickQueue' = Tail(tickQueue)
    /\ UNCHANGED <<env, optionsArg, options, target, dirs, fs, wraps>>

\* fixtures present before the run: one of a future-like call that retained
\* no settlement, and a file that is not JSON
SeedPath(args) == filepath([dir |-> "test/data", prefix |-> METHOD], stringifySafe(args))

SeedFixtures ==
    [p \in {SeedPath(<<"42">>), SeedPath(<<"undefined">>)} |->
        IF p = SeedPath(<<"42">>)
        THEN [callArgs |-> stringifySafe(<<"42">>), returnedPromise |-> "true"]
        ELSE Malformed]

Init ==
    /\ env = ""
    /\ optionsArg = [str |-> "", dir |-> "", prefix |-> "", mode |-> "", sinon |-> FALSE]
    /\ options = NoOptions
    /\ target = "original"
    /\ dirs = {"test/data"}
    /\ fs = SeedFixtures
    /\ calls = <<>>
    /\ tickQueue = <<>>
    /\ wraps = 0

\* calls the test makes once the original method is back on the target
DirectCalls ==
    \E args \in ArgLists, ret \in {"42", "throw"} :
        CallDirect(args, FALSE, ret, "none", <<>>)

Events ==
    \/ \E i \in 1..Len(calls), cbArgs \in CbArgLists : CallbackFires(i, cbArgs)
    \/ \E i \in 1..Len(calls), s \in Settlements : PromiseSettles(i, s)
    \/ Tick

Next ==
    \/ \E arg \in ExplicitArgs \cup SinonArgs : wrapAsyncMethod(arg)
    \/ restore
    \/ sinonRestore
    \/ DirectCalls
    \/ \E args \in ArgLists, hasCb \in BOOLEAN, ret \in RetKinds,
          cbWhen \in CbWhens, cbArgs \in CbArgLists :
          \/ CallLive(args, hasCb, ret, cbWhen, cbArgs)
          \/ CallCapture(args, hasCb, ret, cbWhen, cbArgs)
    \/ \E args \in ReplayArgLists, hasCb \in BOOLEAN, readErr \in ReadErrs :
          CallReplay(args, hasCb, readErr)
    \/ Events

Spec == Init /\ [][Next]_vars

\* The same program where the test also changes the environment and the
\* configuration object between wraps and calls; the calls are plain.
InitMode == Init

NextMode ==
    \/ \E arg \in ModeArgs : wrapAsyncMethod(arg)
    \/ restore
    \/ \E e \in EnvVals : SetEnv(e)
    \/ \E m \in CfgModes : MutateConfig(m)
    \/ \E args \in {<<"42">>}, ret \in {"42"} :
          \/ CallLive(args, FALSE, ret, "none", <<>>)
          \/ CallCapture(args, FALSE, ret, "none", <<>>)
    \/ \E args \in {<<"42">>} : CallReplay(args, FALSE, "")
    \/ Tick

SpecMode == InitMode /\ [][NextMode]_vars

\* The same program where the test wraps with configurations that resolve to
\* the same or to different directories and prefixes, and calls with argument
\* lists that serialize alike or not; the real method answers at once.
InitPath == Init

NextPath ==
    \/ \E arg \in PathConfigs : wrapAsyncMethod(arg)
    \/ restore
    \/ \E args \in PathArgLists, hasCb \in BOOLEAN, ret \in {"42", "throw"} :
          CallCapture(args, hasCb, ret, "none", <<>>)
    \/ \E args \in PathArgLists, hasCb \in BOOLEAN : CallReplay(args, hasCb, "")
    \/ Tick

SpecPath == InitPath /\ [][NextPath]_vars

-----------------------------------------------------------------------------
(* Properties *)

CallIds == 1..Len(calls)

ValidModes == {"live", "capture", "replay"}

IsSettled(f) == f.state \in {"resolved", "rejected"}

\* every settle event of call c has happened
Complete(c) == ~c.cbPending /\ c.realPromise # "pending"

\* no deferred task of call i is still queued
Drained(i) == \A k \in 1..Len(tickQueue) : tickQueue[k].call # i

\* a value after serialization and parsing, as an array element
JSONRound(v) == ParseText(ElemText(v))

JSONRoundAll(arr) == [k \in 1..Len(arr) |-> JSONRound(arr[k])]

\* the outcome groups of a fixture record
CallbackGroup(rec) == Has(rec, "callbackArgs")

FutureFlag(rec) == Has(rec, "returnedPromise") /\ rec.returnedPromise = "true"

FutureData(rec) == Has(rec, "promiseResolutionArgs") \/ Has(rec, "promiseRejectionArgs")

FutureGroup(rec) == FutureFlag(rec) /\ FutureData(rec)

ReturnGroup(rec) == Has(rec, "returnValue") /\ rec.returnValue # "undefined"

Groups(rec) ==
    (IF CallbackGroup(rec) THEN 1 ELSE 0) + (IF FutureGroup(rec) THEN 1 ELSE 0)
      + (IF ReturnGroup(rec) THEN 1 ELSE 0)

\* the records of capture call c: the one in memory and every one written
RecordsOf(c) == {c.wrappedCallData} \cup {c.writes[k].text : k \in 1..Len(c.writes)}

\* call j replays what call i captured: same arguments and path, the capture
\* ended normally with its writes succeeding and all its settle events over,
\* the path held no fixture before the run and nothing else wrote it, the
\* replay read what the capture left (its last write, or no file when it wrote
\* none), the deferred tasks of the replay are done
Replays(i, j) ==
    /\ i < j
    /\ calls[i].branch = "capture" /\ calls[j].branch = "replay"
    /\ calls[j].args = calls[i].args /\ calls[j].hasCb = calls[i].hasCb
    /\ calls[j].path = calls[i].path
    /\ calls[i].path \notin DOMAIN SeedFixtures
    /\ calls[i].outcome.kind # "throw"
    /\ WriteOk(calls[i].path)
    /\ Complete(calls[i])
    /\ IF calls[i].writes = <<>> THEN calls[j].readErr = "ENOENT"
       ELSE calls[j].cannedJson = calls[i].writes[Len(calls[i].writes)].text
    /\ \A k \in CallIds \ {i} :
           \A w \in 1..Len(calls[k].writes) : calls[k].writes[w].path # calls[i].path
    /\ calls[j].readErr # "EACCES"
    /\ Drained(j)

\* C1: a call made through a capture-mode wrapper followed by a call with the
\* same arguments through a replay-mode wrapper with the same directory and
\* prefix reproduces the outcome of the capture (the callback arguments, the
\* settlement of the future, or the return value, each up to serialization),
\* and the replay call does not raise an error.
C1_CaptureReplayRoundTrip ==
    \A i \in CallIds, j \in CallIds :
        Replays(i, j) =>
            /\ calls[j].outcome.kind # "throw"
            /\ Len(calls[j].cbSeen) = Len(calls[i].cbSeen)
            /\ \A k \in 1..Len(calls[i].cbSeen) :
                   calls[j].cbSeen[k] = JSONRoundAll(calls[i].cbSeen[k])
            /\ IsSettled(calls[i].future) =>
                   /\ calls[j].future.state = calls[i].future.state
                   /\ calls[j].future.v = JSONRound(calls[i].future.v)
            /\ calls[i].outcome.kind = "value" =>
                   /\ calls[j].outcome.kind = "value"
                   /\ calls[j].outcome.v = calls[i].outcome.v

\* C2: in capture mode every settle event of a call (callback fired, future
\* resolved, future rejected, a synchronous return value observed) is followed
\* by a write to the call's fixture path of the record accumulated up to that
\* event.  A return of undefined is not counted as an observed return value.
C2_EverySettleEventWritten ==
    \A i \in CallIds :
        calls[i].branch = "capture" =>
            \A k \in 1..Len(calls[i].settles) :
                LET e == calls[i].settles[k]
                IN  (e.kind = "return" => e.rec.returnValue # "undefined") =>
                        \E w \in 1..Len(calls[i].writes) :
                            /\ calls[i].writes[w].path = calls[i].path
                            /\ calls[i].writes[w].text = RecordText(e.rec)

\* C3: in replay mode the real method is never invoked, whether the fixture
\* exists, is missing, or holds callback, future or return-value data.
C3_ReplayNeverInvokesOriginal ==
    \A i \in CallIds :
        calls[i].branch = "replay" =>
            /\ calls[i].invoked = 0
            /\ calls[i].realRet = ""
            /\ \A k \in 1..Len(calls[i].log) : calls[i].log[k] # "orig"

\* a replay call served a fixture with callback data and delivered it
C3_Witness ==
    \E i \in CallIds :
        /\ calls[i].branch = "replay"
        /\ Has(calls[i].cannedJson, "callbackArgs")
        /\ calls[i].cbSeen # <<>>

\* C4: in live mode the original is invoked exactly once with the unmodified
\* arguments (the caller's own callback), its return value or thrown error
\* reaches the caller unchanged, and no fixture is fingerprinted, read or
\* written.
C4_LivePassThrough ==
    \A i \in CallIds :
        calls[i].branch = "live" =>
            LET c == calls[i]
            IN  /\ c.invoked = 1
                /\ c.passedArgs = callingArgs(c.args, c.hasCb)
                /\ c.reads = 0 /\ c.writes = <<>>
                /\ c.argStr = <<>> /\ c.path = <<>> /\ DOMAIN c.wrappedCallData = {}
                /\ c.cbSeen = c.realFired
                /\ c.realRet = "throw" => c.outcome.kind = "throw" /\ c.outcome.v = "Error"
                /\ c.realRet = "promise" =>
                       /\ c.outcome.kind = "promise"
                       /\ IsSettled(c.realSettled) => c.future = c.realSettled
                /\ c.realRet \notin {"throw", "promise"} =>
                       c.outcome.kind = "value" /\ c.outcome.v = c.realRet

\* a live call with a callback that the real method has fired
C4_Witness ==
    \E i \in CallIds :
        calls[i].branch = "live" /\ calls[i].hasCb /\ calls[i].cbSeen # <<>>

\* C5: in replay mode the caller's callback is never invoked and the
\* synthesized future never settled before the wrapper call has returned.
C5_ReplayNeverSynchronous ==
    \A i \in CallIds :
        calls[i].branch = "replay" =>
            \A k \in 1..Len(calls[i].log) :
                calls[i].log[k] \in {"cb", "settle"} =>
                    \E r \in 1..(k - 1) : calls[i].log[r] \in {"return", "throw"}

\* a replay call whose callback was delivered and whose future was settled
C5_Witness ==
    \E i \in CallIds :
        /\ calls[i].branch = "replay"
        /\ calls[i].cbSeen # <<>>
        /\ IsSettled(calls[i].future)

\* the call a step adds, if it adds one
Added == calls'[Len(calls')]

\* C6: a replay call whose fixture file does not exist throws an error whose
\* message holds the resolved fixture path and the serialized arguments; any
\* other read failure reaches the caller as the error the read raised.
C6_MissingFixtureError ==
    [][(Len(calls') = Len(calls) + 1 /\ Added.branch = "replay") =>
          /\ Added.readErr = "EACCES" =>
                 Added.outcome = [kind |-> "throw", v |-> "EACCES", message |-> NoMessage]
          /\ (Added.readErr # "EACCES" /\ ~FileExists(filepath(options, Added.argStr))) =>
                 /\ Added.outcome.kind = "throw"
                 /\ Added.outcome.v = "Error"
                 /\ Added.outcome.message.file = filepath(options, Added.argStr)
                 /\ Added.outcome.message.details =
                        stringifySafe(callingArgs(Added.args, Added.hasCb))]_vars

\* one replay call found no fixture and another met a different read failure
C6_Witness ==
    \E i \in CallIds, j \in CallIds :
        /\ calls[i].branch = "replay" /\ calls[i].readErr = "ENOENT"
        /\ calls[i].outcome.message.file = calls[i].path
        /\ calls[j].branch = "replay" /\ calls[j].readErr = "EACCES"

\* C7 as stated: after a capture-mode call has completed, its FixtureRecord,
\* in memory and as persisted, has exactly one outcome group populated.  Only
\* calls whose real method returned a defined value or a promise are counted.
C7_ExactlyOneGroup ==
    \A i \in CallIds :
        (/\ calls[i].branch = "capture"
         /\ Complete(calls[i])
         /\ calls[i].outcome.kind \in {"value", "promise"}
         /\ calls[i].realRet # "undefined") =>
            /\ Groups(calls[i].wrappedCallData) = 1
            /\ calls[i].writes # <<>> =>
                   Groups(calls[i].writes[Len(calls[i].writes)].text) = 1

\* C7 as amended: a FixtureRecord of a capture call, in memory or written,
\* never holds both future data and a return value: resolution or rejection
\* data comes only with the future flag, a return value only without it.
C7_FutureAndReturnExclusive ==
    \A i \in CallIds :
        calls[i].branch = "capture" =>
            \A rec \in RecordsOf(calls[i]) :
                /\ FutureData(rec) => FutureFlag(rec)
                /\ Has(rec, "returnValue") => ~FutureFlag(rec)
                /\ ~(FutureGroup(rec) /\ ReturnGroup(rec))

\* completed capture calls: one with callback data and a return value, one
\* with future data
C7_Witness ==
    \E i \in CallIds, j \in CallIds :
        /\ calls[i].branch = "capture" /\ Complete(calls[i])
        /\ CallbackGroup(calls[i].wrappedCallData) /\ ReturnGroup(calls[i].wrappedCallData)
        /\ calls[j].branch = "capture" /\ Complete(calls[j])
        /\ FutureGroup(calls[j].wrappedCallData)

\* the real outcome of capture call c reached the caller unchanged
Forwarded(c) ==
    /\ c.cbSeen = c.realFired
    /\ IsSettled(c.realSettled) => c.future = c.realSettled
    /\ c.realRet = "promise" => c.outcome.kind = "promise"
    /\ c.realRet \notin {"", "throw", "promise"} =>
           c.outcome.kind = "value" /\ c.outcome.v = c.realRet

\* C8 as stated: in capture mode the real outcome reaches the caller
\* unchanged: the caller's callback is invoked once per firing with the
\* identical arguments, the returned future settles as the real one did, a
\* plain return value is returned as is.
C8_OutcomeForwarded ==
    \A i \in CallIds : calls[i].branch = "capture" => Forwarded(calls[i])

\* C8 as amended: the real outcome reaches the caller unchanged when the
\* fixture writes of the call succeed; when they fail the caller's callback is
\* not invoked and the returned future rejects with the error of the write.
C8_OutcomeForwardedWhenWritten ==
    \A i \in CallIds :
        calls[i].branch = "capture" =>
            /\ WriteOk(calls[i].path) => Forwarded(calls[i])
            /\ ~WriteOk(calls[i].path) =>
                   /\ calls[i].cbSeen = <<>>
                   /\ IsSettled(calls[i].realSettled) =>
                          calls[i].future = [state |-> "rejected", v |-> "ENOENT"]

\* a capture call whose writes succeed, whose callback fired and whose
\* promise rejected, and one whose write failed when the callback fired
C8_Witness ==
    \E i \in CallIds, j \in CallIds :
        /\ calls[i].branch = "capture" /\ WriteOk(calls[i].path)
        /\ calls[i].realFired # <<>> /\ calls[i].realSettled.state = "rejected"
        /\ calls[j].branch = "capture" /\ ~WriteOk(calls[j].path)
        /\ calls[j].realFired # <<>>

\* what a call did, read off its effects
Behaviour(c) ==
    CASE c.invoked = 1 /\ c.reads = 0 /\ c.path = <<>> -> "live"
      [] c.invoked = 1 /\ c.reads = 0 /\ c.path # <<>> -> "capture"
      [] c.invoked = 0 /\ c.reads = 1 /\ c.path # <<>> -> "replay"
      [] OTHER -> "none"

\* C9: the effective mode of a wrapper is fixed when the method is wrapped:
\* the options change only by wrapping, and a call takes the branch of the
\* mode resolved then, whatever the environment value and the configuration
\* object have become since.
C9_ModeFixedAtWrap ==
    [][/\ wraps' = wraps => options' = options
       /\ (Len(calls') = Len(calls) + 1 /\ target = "wrapper") =>
              Added.branch = BranchOf(options.mode)]_vars

\* a call through a wrapper made when resolving the mode again would have
\* selected another branch
C9_Witness ==
    \E i \in CallIds : calls[i].branch # "direct" /\ calls[i].drift

\* C10: at wrap time an explicit mode of the configuration is used, else the
\* mode the environment value names, else replay; and a call through the
\* wrapper behaves as exactly one of live, capture and replay, the one
\* resolved.
C10_ModeResolution ==
    [][/\ wraps' = wraps + 1 =>
              LET b == BranchOf(options'.mode)
              IN  /\ optionsArg'.mode \in ValidModes => b = optionsArg'.mode
                  /\ (optionsArg'.mode = "" /\ env \in ValidModes) => b = env
                  /\ (optionsArg'.mode = "" /\ env = "") => b = "replay"
       /\ (Len(calls') = Len(calls) + 1 /\ target = "wrapper") =>
              /\ Behaviour(Added) \in ValidModes
              /\ Behaviour(Added) = BranchOf(options.mode)]_vars

\* a replay call through the one wrapper made so far, made with neither an
\* explicit mode nor an environment value
C10_Witness ==
    /\ wraps = 1 /\ optionsArg.mode = "" /\ env = "" /\ options.mode = "replay"
    /\ \E i \in CallIds :
           calls[i].branch = "replay" /\ ~calls[i].drift /\ Behaviour(calls[i]) = "replay"

\* how often entry e occurs in the log of a call
Count(log, e) == Cardinality({k \in 1..Len(log) : log[k] = e})

\* the settlement task of replay call i is still queued
SettleQueued(i) ==
    \E k \in 1..Len(tickQueue) : tickQueue[k].call = i /\ tickQueue[k].task = "settle"

\* the settlement a fixture prescribes for the future of a replay call
Prescribed(rec) ==
    IF Has(rec, "promiseResolutionArgs")
    THEN [state |-> "resolved", v |-> First(ParseArray(rec.promiseResolutionArgs))]
    ELSE IF Has(rec, "promiseRejectionArgs")
    THEN [state |-> "rejected", v |-> First(ParseArray(rec.promiseRejectionArgs))]
    ELSE [state |-> "rejected", v |-> NICE_ERR_PROMISE]

\* C11: a replay call whose fixture indicates a future-like result returns a
\* future; the future is pending until the next tick and then resolves with
\* the parsed resolution data if present, else rejects with the parsed
\* rejection data if present, else rejects with the fixed error; it settles
\* once, after the call has returned.
C11_ReplayFutureSettlement ==
    \A i \in CallIds :
        (calls[i].branch = "replay" /\ FutureFlag(calls[i].cannedJson)) =>
            LET c == calls[i]
            IN  /\ c.outcome.kind = "promise"
                /\ Count(c.log, "settle") <= 1
                /\ SettleQueued(i) => c.future.state = "pending"
                /\ ~SettleQueued(i) =>
                       /\ c.future = Prescribed(c.cannedJson)
                       /\ Count(c.log, "settle") = 1
                /\ \A k \in 1..Len(c.log) :
                       c.log[k] = "settle" => \E r \in 1..(k - 1) : c.log[r] = "return"

\* a replay call whose future resolved with the parsed resolution data of a
\* fixture that a capture call wrote
C11_Witness ==
    \E i \in CallIds :
        /\ calls[i].branch = "replay"
        /\ FutureFlag(calls[i].cannedJson)
        /\ Has(calls[i].cannedJson, "promiseResolutionArgs")
        /\ calls[i].future = [state |-> "resolved", v |-> "42"]

\* replay calls whose future rejected: one with the parsed rejection data of a
\* fixture, one with the fixed error
C11_RejectionReached ==
    \E i \in CallIds :
        /\ calls[i].branch = "replay"
        /\ Has(calls[i].cannedJson, "promiseRejectionArgs")
        /\ calls[i].future = [state |-> "rejected", v |-> "{}"]

C11_FixedErrorReached ==
    \E i \in CallIds :
        /\ calls[i].branch = "replay"
        /\ calls[i].future = [state |-> "rejected", v |-> NICE_ERR_PROMISE]

\* C12: wrapping without a stub collaborator puts the wrapper on the target;
\* with one, the target is left to the collaborator and does not hold the
\* wrapper itself.  While the wrapper is on the target its restore can run and
\* puts the original method back; a restore never leaves anything else on the
\* target, so a restore on a restored target changes nothing; apart from
\* wrapping, the target changes only to the original method.  A call made while the target holds the original method
\* reaches it directly, with the caller's arguments, and touches no fixture.
C12_WrapAndRestore ==
    /\ [](target = "wrapper" => ENABLED (restore /\ target' = "original"))
    /\ [](options # NoOptions /\ ~options.sinon => ~ENABLED (restore /\ target' # "original"))
    /\ [][/\ (wraps' = wraps + 1 /\ ~optionsArg'.sinon) => target' = "wrapper"
          /\ (wraps' = wraps + 1 /\ optionsArg'.sinon) =>
                 target' = "stub" /\ options'.sinon
          /\ (wraps' = wraps /\ target' # target) => target' = "original"
          /\ (Len(calls') = Len(calls) + 1 /\ target = "original") =>
                 /\ Added.branch = "direct"
                 /\ Added.invoked = 1
                 /\ Added.passedArgs = callingArgs(Added.args, Added.hasCb)
                 /\ Added.path = <<>> /\ Added.reads = 0 /\ Added.writes = <<>>
                 /\ fs' = fs /\ tickQueue' = tickQueue]_vars

\* a call through a capture wrapper, the wrapper restored, then a call that
\* reached the original method directly
C12_Witness ==
    /\ target = "original" /\ wraps >= 1 /\ ~options.sinon
    /\ \E i \in CallIds, j \in CallIds :
           /\ i < j
           /\ calls[i].branch = "capture" /\ calls[i].writes # <<>>
           /\ calls[j].branch = "direct" /\ calls[j].invoked = 1

\* the installation went to the stub collaborator and a call was served
\* through the stub
C12_StubReached ==
    /\ target = "stub" /\ options.sinon
    /\ \E i \in CallIds : calls[i].branch = "replay"

\* call i, present before the step, has a settle event in the step
SettlesNow(i) == Len(calls'[i].settles) > Len(calls[i].settles)

\* C13: capture calls that share a fixture path, overlapping or not, leave the
\* file to the last writer.  A step changes a fixture file only to the whole
\* record that one call wrote in that step, and a callback or settlement event
\* of a call in flight, its write succeeding, leaves the file equal to the
\* record of that call as of the event, whatever other calls wrote there
\* before; so once all calls on the path have settled the file is the record
\* of the call that settled last.
C13_LastWriteWins ==
    [][/\ \A p \in DOMAIN fs' :
              (p \notin DOMAIN fs \/ fs'[p] # fs[p]) =>
                  \E i \in 1..Len(calls') :
                      /\ calls'[i].branch = "capture" /\ calls'[i].path = p
                      /\ calls'[i].writes # <<>>
                      /\ fs'[p] = calls'[i].writes[Len(calls'[i].writes)].text
       /\ \A i \in CallIds :
              (/\ calls[i].branch = "capture"
               /\ SettlesNow(i)
               /\ WriteOk(calls[i].path)) =>
                  /\ calls[i].path \in DOMAIN fs'
                  /\ fs'[calls[i].path] = RecordText(calls'[i].wrappedCallData)]_vars

\* two capture calls on one path, both settled, both having written, with
\* different records; the file holds the record of the first call: its last
\* settle event came after the second call had started and written
C13_Witness ==
    /\ Len(calls) = 2
    /\ calls[1].branch = "capture" /\ calls[2].branch = "capture"
    /\ calls[1].path = calls[2].path
    /\ Complete(calls[1]) /\ Complete(calls[2])
    /\ calls[1].writes # <<>> /\ calls[2].writes # <<>>
    /\ WriteOk(calls[1].path)
    /\ RecordText(calls[1].wrappedCallData) # RecordText(calls[2].wrappedCallData)
    /\ fs[calls[1].path] = RecordText(calls[1].wrappedCallData)

\* replay call c read and parsed a fixture
Parsed(c) == c.branch = "replay" /\ Has(c.cannedJson, "callArgs")

\* C14: a replay call parses and returns the stored return value only when
\* the fixture holds no callback data and no future flag; a replay call whose
\* fixture holds callback data and no future flag schedules the callback and
\* returns without raising an error.
C14_ReturnValueOnlyWithoutCallback ==
    \A i \in CallIds :
        Parsed(calls[i]) =>
            LET c == calls[i]
            IN  /\ c.outcome.kind = "value" =>
                       ~CallbackGroup(c.cannedJson) /\ ~FutureFlag(c.cannedJson)
                /\ (CallbackGroup(c.cannedJson) /\ ~FutureFlag(c.cannedJson)) =>
                       c.outcome.kind # "throw"

\* no call other than i wrote to the fixture path of call i
SoleWriter(i) ==
    \A k \in CallIds \ {i} :
        \A w \in 1..Len(calls[k].writes) : calls[k].writes[w].path # calls[i].path

\* C15: once a capture call that no other call overlaps on its path has
\* returned and had its last settle event, the fixture file it wrote (the
\* directory being writable) equals the record the call holds in memory,
\* every outcome field included.
C15_WrittenFixtureConverges ==
    \A i \in CallIds :
        (/\ calls[i].branch = "capture"
         /\ calls[i].outcome.kind \in {"value", "promise"}
         /\ Complete(calls[i])
         /\ calls[i].writes # <<>>
         /\ WriteOk(calls[i].path)
         /\ SoleWriter(i)) =>
            fs[calls[i].path] = RecordText(calls[i].wrappedCallData)

\* the fixture read of replay call c failed: the file was missing or
\* unreadable, or its content was not JSON
ReadFailed(c) == c.branch = "replay" /\ c.reads = 1 /\ ~Has(c.cannedJson, "callArgs")

\* C16: a replay call whose fixture read fails throws from the call itself
\* and schedules nothing: no task of the call is ever queued, its callback is
\* never delivered, no future is returned or settled.
C16_ReadFailureSynchronous ==
    \A i \in CallIds :
        ReadFailed(calls[i]) =>
            LET c == calls[i]
            IN  /\ c.outcome.kind = "throw"
                /\ Drained(i)
                /\ c.cbSeen = <<>>
                /\ c.future = NoFuture
                /\ \A k \in 1..Len(c.log) : c.log[k] \in {"read", "throw"}

\* replay calls that failed on a fixture that is not JSON and on a missing
\* fixture, the latter made with a callback
C16_Witness ==
    \E i \in CallIds, j \in CallIds :
        /\ ReadFailed(calls[i]) /\ calls[i].outcome.v = "SyntaxError"
        /\ ReadFailed(calls[j]) /\ calls[j].readErr = "ENOENT" /\ calls[j].hasCb

\* the tasks of replay call i that are still queued
QueuedTasks(i) == {tickQueue[k].task : k \in {n \in 1..Len(tickQueue) : tickQueue[n].call = i}}

\* C17: a replay call with a callback whose fixture holds callback data and
\* the future flag returns a future and has both deferred: each of the
\* callback delivery and the settlement is either still queued or done, never
\* dropped; the callback gets the parsed callback arguments once, the future
\* settles as the fixture prescribes, both after the call has returned.
C17_CallbackAndFutureIndependent ==
    \A i \in CallIds :
        (/\ calls[i].branch = "replay" /\ calls[i].hasCb
         /\ CallbackGroup(calls[i].cannedJson)
         /\ FutureFlag(calls[i].cannedJson)) =>
            LET c == calls[i]
            IN  /\ c.outcome.kind = "promise"
                /\ IF "cb" \in QueuedTasks(i) THEN c.cbSeen = <<>>
                   ELSE c.cbSeen = <<ParseArray(c.cannedJson.callbackArgs)>>
                /\ IF "settle" \in QueuedTasks(i) THEN c.future.state = "pending"
                   ELSE c.future = Prescribed(c.cannedJson)
                /\ \A k \in 1..Len(c.log) :
                       c.log[k] \in {"cb", "settle"} =>
                           \E r \in 1..(k - 1) : c.log[r] = "return"

\* a replay call served from a fixture with callback arguments and resolution
\* data: the callback was delivered and the future resolved
C17_Witness ==
    \E i \in CallIds :
        /\ calls[i].branch = "replay" /\ calls[i].hasCb
        /\ CallbackGroup(calls[i].cannedJson)
        /\ FutureGroup(calls[i].cannedJson)
        /\ calls[i].cbSeen = <<(<<"null", "ok">>)>>
        /\ calls[i].future = [state |-> "resolved", v |-> "42"]

\* call c went through the capture or the replay branch
Fixtured(c) == c.branch \in {"capture", "replay"}

\* C18: two calls through capture or replay wrappers with the same directory
\* and prefix whose arguments serialize to the same text have the same
\* fixture path, whatever their modes, their arguments before serialization,
\* their outcomes and the calls made before them.
C18_PathDeterminism ==
    \A i \in CallIds, j \in CallIds :
        (/\ Fixtured(calls[i]) /\ Fixtured(calls[j])
         /\ calls[i].dir = calls[j].dir
         /\ calls[i].prefix = calls[j].prefix
         /\ calls[i].argStr = calls[j].argStr) =>
            calls[i].path = calls[j].path

\* a capture call and a replay call with the same path: one passed a
\* callback, the other an argument that serializes like one, and they ended
\* differently
C18_Witness ==
    \E i \in CallIds, j \in CallIds :
        /\ calls[i].branch = "capture" /\ calls[j].branch = "replay"
        /\ calls[i].hasCb /\ ~calls[j].hasCb
        /\ calls[i].args # calls[j].args
        /\ calls[i].outcome.kind # calls[j].outcome.kind
        /\ calls[i].argStr = calls[j].argStr
        /\ calls[i].path = calls[j].path

\* how often entry e occurs among the first k entries of the log of a call
CountUpTo(log, e, k) == Cardinality({r \in 1..k : log[r] = e})

\* the write a capture call made right before entry k of its log, if entry
\* k - 1 is a write
WriteBefore(c, k) == c.writes[CountUpTo(c.log, "write", k - 1)]

\* C19: in a capture call the caller's callback runs right after a successful
\* write of a record that holds the arguments of that firing, and the future
\* the caller holds settles right after the write of a record that holds the
\* resolution or rejection data as the future then shows it; when the write
\* fails the future shows the error of the write instead, and a firing whose
\* write fails does not reach the caller's callback.
C19_WriteBeforeObservation ==
    \A i \in CallIds :
        calls[i].branch = "capture" =>
            LET c == calls[i]
            IN  /\ \A k \in 1..Len(c.log) :
                       c.log[k] = "cb" =>
                           /\ k > 1 /\ c.log[k - 1] = "write"
                           /\ WriteBefore(c, k).ok
                           /\ Has(WriteBefore(c, k).text, "callbackArgs")
                           /\ WriteBefore(c, k).text.callbackArgs =
                                  stringifySafe(c.cbSeen[CountUpTo(c.log, "cb", k)])
                /\ \A k \in 1..Len(c.log) :
                       c.log[k] = "settle" =>
                           /\ k > 1 /\ c.log[k - 1] = "write"
                           /\ WriteBefore(c, k).ok =>
                                  /\ c.future = c.realSettled
                                  /\ c.future.state = "resolved" =>
                                         /\ Has(WriteBefore(c, k).text,
                                                "promiseResolutionArgs")
                                         /\ WriteBefore(c, k).text.promiseResolutionArgs
                                                = stringifySafe(<<c.future.v>>)
                                  /\ c.future.state = "rejected" =>
                                         /\ Has(WriteBefore(c, k).text,
                                                "promiseRejectionArgs")
                                         /\ WriteBefore(c, k).text.promiseRejectionArgs
                                                = stringifySafe(<<c.future.v>>)
                           /\ ~WriteBefore(c, k).ok =>
                                  c.future = [state |-> "rejected", v |-> "ENOENT"]
                /\ WriteOk(c.path) => c.cbSeen = c.realFired
                /\ ~WriteOk(c.path) => c.cbSeen = <<>>

\* a capture call whose callback ran and whose future resolved, each after a
\* write, and a capture call whose callback fired while the write failed
C19_Witness ==
    \E i \in CallIds, j \in CallIds :
        /\ calls[i].branch = "capture"
        /\ calls[i].cbSeen # <<>> /\ calls[i].future.state = "resolved"
        /\ calls[j].branch = "capture"
        /\ calls[j].realFired # <<>> /\ calls[j].cbSeen = <<>>
        /\ calls[j].writes # <<>> /\ ~calls[j].writes[1].ok

\* C20: replay never writes: a replay call records no write, and neither the
\* step of a replay call nor the step of a deferred task it scheduled changes
\* any fixture file or directory.
C20_ReplayReadOnly ==
    /\ [](\A i \in CallIds :
             calls[i].branch = "replay" =>
                 /\ calls[i].writes = <<>>
                 /\ \A k \in 1..Len(calls[i].log) : calls[i].log[k] # "write")
    /\ [][/\ (Len(calls') = Len(calls) + 1 /\ Added.branch = "replay") =>
                 fs' = fs /\ dirs' = dirs
          /\ (tickQueue # <<>> /\ tickQueue' = Tail(tickQueue)) =>
                 fs' = fs /\ dirs' = dirs]_vars

\* a replay call served from a fixture that a capture call wrote: its
\* callback was delivered, its future settled, the file is as it was read
C20_Witness ==
    \E i \in CallIds :
        /\ calls[i].branch = "replay"
        /\ calls[i].cbSeen # <<>> /\ IsSettled(calls[i].future)
        /\ Drained(i)
        /\ calls[i].path \notin DOMAIN SeedFixtures
        /\ fs[calls[i].path] = calls[i].cannedJson

====
